---- MODULE Spec2Model ----
(***************************************************************************)
(* Model of opendm/dem/commands.py: create_dems (parallel per-radius DEM   *)
(* generation, regrouping, optional gap-fill), create_dem (one radius run) *)
(* and gap_fill (merge, nearest-neighbour fill, 5x5 median, write).        *)
(*                                                                         *)
(* Two specifications share the module:                                    *)
(*   Spec      one create_dems call: the executor's jobs, the ordered      *)
(*             collection of their results, regrouping and post-processing *)
(*             at the level of file names;                                 *)
(*   GapSpec   one gap_fill call at the level of pixels.                   *)
(*                                                                         *)
(* Python strings are sequences of character codes, so that '%s'           *)
(* formatting, concatenation and sorted() are computed, not assumed.       *)
(***************************************************************************)
EXTENDS Integers, Sequences, FiniteSets, TLC

\* ------------------------------------------------------------------ bounds
MaxRadii == 2
MaxProducts == 2
MaxWorkers == 2
MaxRasters == 2
Rows == 2
Cols == 2

\* ----------------------------------------------------------------- strings
\* character codes of the literals the code builds names from
StrDot == <<46>>
StrSlash == <<47>>
StrTif == <<116, 105, 102>>
StrUnderR == <<95, 114>>
StrEmpty == <<>>

\* str(n) for a non-negative integer n
RECURSIVE Digits(_)
Digits(n) == IF n < 10 THEN <<48 + n>> ELSE Digits(n \div 10) \o <<48 + (n % 10)>>

\* '%s' % radius: a str is rendered as itself, an int by its decimal digits
FormatS(r) == IF r.kind = "str" THEN r.s ELSE Digits(r.n)

\* Python's str < str: code point order, a proper prefix sorts first
RECURSIVE StrLess(_, _)
StrLess(a, b) ==
    IF b = <<>> THEN FALSE
    ELSE IF a = <<>> THEN TRUE
    ELSE IF Head(a) # Head(b) THEN Head(a) < Head(b)
    ELSE StrLess(Tail(a), Tail(b))

\* os.path.join(a, b) for a relative b
PathJoin(a, b) ==
    IF a = <<>> THEN b
    ELSE IF a[Len(a)] = 47 THEN a \o b
    ELSE a \o StrSlash \o b

\* os.path.abspath(p): an absolute path is itself, a relative one is under cwd
Cwd == <<47, 119>>
AbsPath(p) ==
    IF p # <<>> /\ p[1] = 47 THEN p
    ELSE IF p = <<>> THEN Cwd
    ELSE PathJoin(Cwd, p)

\* (variant: the list is used in the order given)
Unsorted(s) == s

\* sorted(seq) of strings: insertion into the sorted tail, stable
RECURSIVE InsertSorted(_, _)
InsertSorted(x, s) ==
    IF s = <<>> THEN <<x>>
    ELSE IF StrLess(x, Head(s)) THEN <<x>> \o s
    ELSE <<Head(s)>> \o InsertSorted(x, Tail(s))

RECURSIVE Sorted(_)
Sorted(s) == IF s = <<>> THEN <<>> ELSE InsertSorted(s[Len(s)], Sorted(SubSeq(s, 1, Len(s) - 1)))

\* ------------------------------------------------------------------ inputs
StrRadius(s) == [kind |-> "str", s |-> s, n |-> 0]
IntRadius(n) == [kind |-> "int", s |-> <<>>, n |-> n]

\* radius values a caller may pass: '2', '10', '2.5' and the integer 2
RadiusValues == {StrRadius(<<50>>), StrRadius(<<49, 48>>), StrRadius(<<50, 46, 53>>), IntRadius(2)}

\* product keys: 'idw' and '5.idw'
ProductNames == {<<105, 100, 119>>, <<53, 46, 105, 100, 119>>}

\* 'dsm' and 'dtm'
DemTypes == {<<100, 115, 109>>, <<100, 116, 109>>}

Suffixes == {StrEmpty}
OutDirs == {<<47, 111>>}

SeqsUpTo(S, n) == UNION {[1..k -> S] : k \in 0..n}

Range(f) == {f[x] : x \in DOMAIN f}

\* ------------------------------------------------------------------- state
VARIABLES
    radius,      \* create_dems argument: the sequence of radius values
    products,    \* kwargs['products']: the list of product keys
    gapfill,     \* create_dems argument
    demtype,     \* create_dems argument
    suffix,      \* create_dems argument
    outdir,      \* create_dems argument
    job,         \* state of the create_dem invocation submitted for each radius index
    started,     \* how many times each radius index was taken up by a worker
    result,      \* what each finished create_dem invocation returned
    finished,    \* the radius indices in the order their invocations ended
    disk,        \* names of the files that exist
    fouts,       \* the list that list(e.map(...)) has built so far
    taken,       \* the radius indices whose results are in fouts, in list order
    fnames,      \* the dict of lists built by the regrouping loop
    ret,         \* the dict _fouts
    gapcalls,    \* the gap_fill invocations made by the call, in order
    pc,          \* position of create_dems
    gfilenames,  \* gap_fill local "filenames" once rebound to the sorted copy of the argument
    gfout,       \* gap_fill argument: the output path
    gdisk,       \* the raster files gap_fill can open: path -> nodata value and band 1
    imgs,        \* gap_fill local: the paths of the opened images, in list order
    nodata,      \* gap_fill local
    arr,         \* gap_fill local: the accumulator array
    gi,          \* gap_fill local: how many images the merge has consumed
    merged,      \* the accumulator as it was when the merge loop ended
    dense,       \* the accumulator as it was after the nearest-neighbour fill
    imgout,      \* the raster gap_fill wrote, or NoRaster
    gpc,         \* position of gap_fill
    cargs,       \* classify arguments
    cpdal,       \* the pdal call classify made, or NoCall
    cerr,        \* the exception classify raised, or NoError
    cret,        \* the value classify returned, or NoReturn
    cpc          \* position of classify

inputVars == <<radius, products, gapfill, demtype, suffix, outdir>>
jobVars == <<job, started, result, finished, disk>>
callVars == <<fouts, taken, fnames, ret, gapcalls, pc>>
schedVars == <<inputVars, jobVars, callVars>>
gapVars == <<gfilenames, gfout, gdisk, imgs, nodata, arr, gi, merged, dense, imgout, gpc>>
classVars == <<cargs, cpdal, cerr, cret, cpc>>

N == Len(radius)
ProductSet == Range(products)

\* ---------------------------------------------------------------- create_dem
\* (variant: the radius left out of the base name)
BNameNoRadius(r) == PathJoin(AbsPath(outdir), demtype \o suffix)

\* bname of create_dem for one radius value
BName(r) == PathJoin(AbsPath(outdir), demtype \o StrUnderR \o FormatS(r) \o suffix)

\* fouts[o] of create_dem
ProductFile(bname, o) == bname \o StrDot \o o \o StrDot \o StrTif

\* (variant: only the first product of the list gets an entry)
DemFoutsFirstProduct(r) ==
    [o \in {products[k] : k \in {1} \cap DOMAIN products} |->
        ProductFile(BName(r), o)]

\* the dict fouts of create_dem: product -> bname.<product>.tif
DemFouts(r) == [o \in ProductSet |-> ProductFile(BName(r), o)]

\* the files the job for radius index i writes and then verifies
JobFiles(i) == Range(DemFouts(radius[i]))

Running == {i \in 1..N : job[i] \in {"running", "piped"}}

EmptyDict == [p \in {} |-> <<>>]

\* (variant: a failed invocation is submitted again)
JobStartRetry(i) ==
    /\ job[i] \in {"queued", "failed"}
    /\ \A j \in 1..(i - 1) : job[j] # "queued"
    /\ Cardinality(Running) < MaxWorkers
    /\ job' = [job EXCEPT ![i] = "running"]
    /\ started' = [started EXCEPT ![i] = @ + 1]
    /\ UNCHANGED <<classVars, gapVars, inputVars, result, finished, disk, callVars>>

\* a worker of the pool takes the oldest queued call
JobStart(i) ==
    /\ job[i] = "queued"
    /\ \A j \in 1..(i - 1) : job[j] # "queued"
    /\ Cardinality(Running) < MaxWorkers
    /\ job' = [job EXCEPT ![i] = "running"]
    /\ started' = [started EXCEPT ![i] = @ + 1]
    /\ UNCHANGED <<classVars, gapVars, inputVars, result, finished, disk, callVars>>

\* pdal.run_pipeline: raises, or completes having written some of the product files
RunPipeline(i) ==
    /\ job[i] = "running"
    /\ \E raised \in BOOLEAN, written \in SUBSET JobFiles(i) :
          /\ disk' = disk \cup written
          /\ job' = [job EXCEPT ![i] = IF raised THEN "failed" ELSE "piped"]
          /\ finished' = IF raised THEN Append(finished, i) ELSE finished
    /\ UNCHANGED <<classVars, gapVars, inputVars, started, result, callVars>>

\* (variant: the existence of the product files is not verified)
AllExistUnchecked(i) == TRUE

\* "verify existence of fout": every file of fouts must exist, else raise
AllExist(i) == \A f \in JobFiles(i) : f \in disk

VerifyOutputs(i) ==
    /\ job[i] = "piped"
    /\ IF AllExist(i)
          THEN /\ job' = [job EXCEPT ![i] = "ok"]
               /\ result' = [result EXCEPT ![i] = DemFouts(radius[i])]
          ELSE /\ job' = [job EXCEPT ![i] = "failed"]
               /\ result' = result
    /\ finished' = Append(finished, i)
    /\ UNCHANGED <<classVars, gapVars, inputVars, started, disk, callVars>>

\* --------------------------------------------------------------- create_dems
\* (variant: results are taken as the jobs complete)
NextIndexAsCompleted(got) == {k \in 1..N : k \notin Range(got)}

\* e.map yields results in submission order: the next index is the one after
\* those already in the list
NextIndex(got) == {Len(got) + 1} \cap (1..N)

\* what the iteration does with the future of a job: its result is appended,
\* its exception is re-raised, or the iteration blocks
OnFuture(status) ==
    IF status = "ok" THEN "append"
    ELSE IF status = "failed" THEN "raise"
    ELSE "wait"

\* (variant: a failed invocation is skipped instead of re-raised)
MapNextSkipFailed ==
    /\ pc = "map"
    /\ \E k \in NextIndex(taken) :
          /\ OnFuture(job[k]) \in {"append", "raise"}
          /\ fouts' = IF OnFuture(job[k]) = "append" THEN Append(fouts, result[k]) ELSE fouts
          /\ taken' = Append(taken, k)
          /\ pc' = pc
    /\ UNCHANGED <<classVars, gapVars, inputVars, jobVars, fnames, ret, gapcalls>>

\* fouts = list(e.map(create_dem_for_radius, radius)), one result at a time
MapNext ==
    /\ pc = "map"
    /\ \E k \in NextIndex(taken) :
          \/ /\ OnFuture(job[k]) = "append"
             /\ fouts' = Append(fouts, result[k])
             /\ taken' = Append(taken, k)
             /\ pc' = pc
          \/ /\ OnFuture(job[k]) = "raise"
             /\ pc' = "failed"
             /\ UNCHANGED <<fouts, taken>>
    /\ UNCHANGED <<classVars, gapVars, inputVars, jobVars, fnames, ret, gapcalls>>

\* (variant: regrouping starts as soon as a first result is there)
MapDoneFirst == Len(taken) >= 1

\* the iteration over the futures is exhausted: one was taken per radius
MapDone == Len(taken) = N

\* "convert from list of dicts, to dict of lists"
Regrouped(l) == [p \in DOMAIN l[1] |-> [i \in 1..Len(l) |-> l[i][p]]]

\* fouts[0] of an empty list raises IndexError
Regroup ==
    /\ pc = "map"
    /\ MapDone
    /\ IF fouts = <<>>
          THEN pc' = "failed" /\ fnames' = fnames
          ELSE pc' = "post" /\ fnames' = Regrouped(fouts)
    /\ UNCHANGED <<classVars, gapVars, inputVars, jobVars, fouts, taken, ret, gapcalls>>

\* the output name of the gap-filled raster
MergedName(product) == PathJoin(outdir, demtype \o suffix \o StrDot \o StrTif)

\* one iteration of "for product in fouts.keys()", gapfill branch
GapFillProduct(product) ==
    /\ pc = "post"
    /\ gapfill
    /\ product \in DOMAIN fnames
    /\ product \notin DOMAIN ret
    /\ LET fout == MergedName(product) IN
          /\ gapcalls' = Append(gapcalls, [product |-> product,
                                            filenames |-> fnames[product],
                                            imgs |-> Sorted(fnames[product]),
                                            fout |-> fout])
          /\ disk' = disk \cup {fout}
          /\ ret' = [q \in DOMAIN ret \cup {product} |-> IF q = product THEN fout ELSE ret[q]]
    /\ UNCHANGED <<classVars, gapVars, inputVars, job, started, result, finished, fouts, taken, fnames, pc>>

\* (variant: the last radius run instead of the first)
LastOf(series) == series[Len(series)]

\* "only return single filename (first radius run)"
FirstOf(series) == series[1]

\* one iteration of "for product in fouts.keys()", pass-through branch
PassThrough(product) ==
    /\ pc = "post"
    /\ ~gapfill
    /\ product \in DOMAIN fnames
    /\ product \notin DOMAIN ret
    /\ ret' = [q \in DOMAIN ret \cup {product} |->
                  IF q = product THEN FirstOf(fnames[product]) ELSE ret[q]]
    /\ UNCHANGED <<classVars, gapVars, inputVars, jobVars, fouts, taken, fnames, gapcalls, pc>>

\* "return _fouts"
Return ==
    /\ pc = "post"
    /\ DOMAIN ret = DOMAIN fnames
    /\ pc' = "returned"
    /\ UNCHANGED <<classVars, gapVars, inputVars, jobVars, fouts, taken, fnames, ret, gapcalls>>

\* ------------------------------------------------------------------ gap_fill
Cells == (1..Rows) \X (1..Cols)
CellIndex(c) == (c[1] - 1) * Cols + c[2]

NoRaster == [nodata |-> 0, band |-> <<>>, path |-> <<>>, template |-> <<>>]
NoArray == <<>>

\* arr == nodata: the cells of the mask
NoDataMask(a, nd) == {c \in Cells : a[c] = nd}

\* (variant: the later raster overwrites wherever it is not nodata itself)
MergeIntoLastWins(a, nd, band) == [c \in Cells |-> IF band[c] # nd THEN band[c] ELSE a[c]]

\* one pass of the merge loop:
\*   locs = numpy.where(arr == nodata); arr[locs] = imgs[i][0].read()[locs]
MergeInto(a, nd, band) == [c \in Cells |-> IF c \in NoDataMask(a, nd) THEN band[c] ELSE a[c]]

\* squared Euclidean distance between two cells
Dist2(c, d) == (c[1] - d[1]) * (c[1] - d[1]) + (c[2] - d[2]) * (c[2] - d[2])

\* ndimage.distance_transform_edt(mask, return_indices=True): for a cell of the
\* mask the index of a nearest cell outside the mask, for any other cell its own
\* index; which of several nearest cells is not specified, nor is the index when
\* no cell lies outside the mask
EdtTargets(mask, c) ==
    IF c \notin mask THEN {c}
    ELSE IF mask = Cells THEN Cells
    ELSE {d \in Cells \ mask : \A e \in Cells \ mask : Dist2(c, d) <= Dist2(c, e)}

\* arr[tuple(indices)] for every index array the transform may return
RECURSIVE TakeAll(_, _, _)
TakeAll(a, mask, todo) ==
    IF todo = {} THEN {<<>>}
    ELSE LET c == CHOOSE x \in todo : TRUE IN
         {f @@ (c :> v) : f \in TakeAll(a, mask, todo \ {c}),
                          v \in {a[d] : d \in EdtTargets(mask, c)}}

\* (variant: the transform is given the valid cells instead of the nodata cells)
FillMaskInverted(a, nd) == Cells \ NoDataMask(a, nd)

\* the argument of the transform: arr == nodata
FillMask(a, nd) == NoDataMask(a, nd)

NearestFilled(a, nd) == TakeAll(a, FillMask(a, nd), Cells)

\* signal.medfilt(arr, 5): the median of the 5x5 window, zero-padded at the edges
KernelSize == 5
Half == KernelSize \div 2
Offsets == (-Half..Half) \X (-Half..Half)
Padded(a, c) == IF c \in Cells THEN a[c] ELSE 0
Window(a, c) == [o \in Offsets |-> Padded(a, <<c[1] + o[1], c[2] + o[2]>>)]
MedianOf(w) ==
    LET rank == (Cardinality(DOMAIN w) \div 2) + 1 IN
    CHOOSE v \in Range(w) :
        /\ Cardinality({o \in DOMAIN w : w[o] < v}) < rank
        /\ Cardinality({o \in DOMAIN w : w[o] <= v}) >= rank
MedFilt(a) == [c \in Cells |-> MedianOf(Window(a, c))]

\* (variant: the output raster is created before the argument is checked)
GapOpenCheckLate(filenames) ==
    /\ gpc = "start"
    /\ IF Len(filenames) = 0
          THEN /\ gpc' = "failed"
               /\ imgout' = [nodata |-> 0, band |-> <<>>, path |-> gfout, template |-> <<>>]
               /\ UNCHANGED <<gfilenames, imgs, nodata, arr, gi>>
          ELSE /\ gfilenames' = Sorted(filenames)
               /\ imgs' = gfilenames'
               /\ nodata' = gdisk[imgs'[1]].nodata
               /\ arr' = gdisk[imgs'[1]].band
               /\ gi' = 1
               /\ gpc' = "merge"
               /\ imgout' = imgout
    /\ UNCHANGED <<classVars, schedVars, gfout, gdisk, merged, dense>>

\* gap_fill(filenames, fout) up to the first read: if len(filenames) == 0 raise;
\* else filenames = sorted(filenames), open them, read nodata and band 1 of imgs[0]
GapOpen(filenames) ==
    /\ gpc = "start"
    /\ IF Len(filenames) = 0
          THEN /\ gpc' = "failed"
               /\ UNCHANGED <<gfilenames, imgs, nodata, arr, gi>>
          ELSE /\ gfilenames' = Sorted(filenames)
               /\ imgs' = gfilenames'
               /\ nodata' = gdisk[imgs'[1]].nodata
               /\ arr' = gdisk[imgs'[1]].band
               /\ gi' = 1
               /\ gpc' = "merge"
    /\ UNCHANGED <<classVars, schedVars, gfout, gdisk, merged, dense, imgout>>

\* one iteration of "for i in range(1, len(imgs))"
GapMerge ==
    /\ gpc = "merge"
    /\ gi < Len(imgs)
    /\ arr' = MergeInto(arr, nodata, gdisk[imgs[gi + 1]].band)
    /\ gi' = gi + 1
    /\ UNCHANGED <<classVars, schedVars, gfilenames, gfout, gdisk, imgs, nodata, merged, dense, imgout, gpc>>

\* "Nearest neighbor interpolation at bad points"
GapNearest ==
    /\ gpc = "merge"
    /\ gi = Len(imgs)
    /\ merged' = arr
    /\ arr' \in NearestFilled(arr, nodata)
    /\ gpc' = "filter"
    /\ UNCHANGED <<classVars, schedVars, gfilenames, gfout, gdisk, imgs, nodata, gi, dense, imgout>>

\* "Median filter"
GapMedian ==
    /\ gpc = "filter"
    /\ dense' = arr
    /\ arr' = MedFilt(arr)
    /\ gpc' = "write"
    /\ UNCHANGED <<classVars, schedVars, gfilenames, gfout, gdisk, imgs, nodata, gi, merged, imgout>>

\* "write output": create from imgs[0], set nodata, write band 1
GapWrite ==
    /\ gpc = "write"
    /\ imgout' = [nodata |-> nodata, band |-> arr, path |-> gfout, template |-> imgs[1]]
    /\ gpc' = "done"
    /\ UNCHANGED <<classVars, schedVars, gfilenames, gfout, gdisk, imgs, nodata, arr, gi, merged, dense>>

\* ------------------------------------------------------------ gap_fill inputs
\* the per-radius 'idw' rasters of a dsm run in /o
GapPaths == {ProductFile(<<47, 111, 47, 100, 115, 109>> \o StrUnderR \o FormatS(r), <<105, 100, 119>>) :
                r \in RadiusValues}
GapOut == <<47, 111, 47, 100, 115, 109, 46, 116, 105, 102>>

NoDataValues == {0, -1}
FlatValues == {0, 3}

\* a valid pixel of a test raster tells its file and its cell
PathIds == [p \in GapPaths |-> 1 + Cardinality({q \in GapPaths : StrLess(q, p)})]
Tag(p, c) == 10 * PathIds[p] + CellIndex(c)

\* the valid regions of the test rasters: everything, nothing, one cell, all but one cell
Masks == {Cells, {}} \cup {{c} : c \in Cells} \cup {Cells \ {c} : c \in Cells}

\* a test raster is tagged on a valid region and holds its nodata value elsewhere,
\* or holds one value everywhere
Shapes == [kind : {"tagged"}, valid : Masks, v : {0}]
          \cup [kind : {"flat"}, valid : {Cells}, v : FlatValues]

RasterOf(p, sh, nd) ==
    LET tags == [c \in Cells |-> Tag(p, c)] IN
    [nodata |-> nd,
     band |-> [c \in Cells |-> IF sh.kind = "flat" THEN sh.v
                               ELSE IF c \in sh.valid THEN tags[c] ELSE nd]]

\* ------------------------------------------------------------------ classify
NoCall == [fn |-> "", input |-> <<>>, output |-> <<>>]
NoError == [type |-> "", msg |-> ""]
NoReturn == <<>>

\* the names bound in classify when the except clause runs: its parameters and
\* its local "start", and the names bound at module level
ClassifyLocals == {"lasFile", "smrf", "slope", "cellsize", "maxWindowSize", "maxDistance",
                   "approximate", "initialDistance", "verbose", "start"}
ModuleGlobals == {"os", "glob", "gippy", "numpy", "ndimage", "datetime", "log",
                  "get_reusable_executor", "partial", "pdal",
                  "classify", "create_dems", "create_dem", "gap_fill"}

\* the names the except clause reads to build its message
HandlerReads == {"fout"}

\* raise Exception("Error creating classified file %s" % fout): reading an
\* unbound name raises NameError before the Exception is built
HandlerError ==
    IF HandlerReads \subseteq ClassifyLocals \cup ModuleGlobals
        THEN [type |-> "Exception", msg |-> "Error creating classified file"]
        ELSE [type |-> "NameError", msg |-> "name is not defined"]

\* the try block: the pdal call, which completes or raises
ClassifyCall ==
    /\ cpc = "start"
    /\ cpdal' = [fn |-> IF cargs.smrf THEN "run_pdaltranslate_smrf" ELSE "run_pdalground",
                 input |-> cargs.lasFile, output |-> cargs.lasFile]
    /\ \E completes \in BOOLEAN : cpc' = IF completes THEN "classified" ELSE "except"
    /\ UNCHANGED <<schedVars, gapVars, cargs, cerr, cret>>

\* the bare except clause
ClassifyExcept ==
    /\ cpc = "except"
    /\ cerr' = HandlerError
    /\ cpc' = "raised"
    /\ UNCHANGED <<schedVars, gapVars, cargs, cpdal, cret>>

\* log and "return lasFile"
ClassifyReturn ==
    /\ cpc = "classified"
    /\ cret' = cargs.lasFile
    /\ cpc' = "returned"
    /\ UNCHANGED <<schedVars, gapVars, cargs, cpdal, cerr>>

\* '/o/a.las' and '/o/b.las'
LasFiles == {<<47, 111, 47, 97, 46, 108, 97, 115>>, <<47, 111, 47, 98, 46, 108, 97, 115>>}
Slopes == {1, 2}

NoArgs == [lasFile |-> <<>>, smrf |-> FALSE, slope |-> 0, approximate |-> FALSE, verbose |-> FALSE]

ClassIdle ==
    /\ cargs = NoArgs
    /\ cpdal = NoCall
    /\ cerr = NoError
    /\ cret = NoReturn
    /\ cpc = "idle"

\* ----------------------------------------------------------- specifications
SchedIdle ==
    /\ radius = <<>>
    /\ products = <<>>
    /\ gapfill = FALSE
    /\ demtype = <<>>
    /\ suffix = <<>>
    /\ outdir = <<>>
    /\ job = <<>>
    /\ started = <<>>
    /\ result = <<>>
    /\ finished = <<>>
    /\ disk = {}
    /\ fouts = <<>>
    /\ taken = <<>>
    /\ fnames = EmptyDict
    /\ ret = EmptyDict
    /\ gapcalls = <<>>
    /\ pc = "idle"

GapLocalsInit ==
    /\ imgs = <<>>
    /\ nodata = 0
    /\ arr = NoArray
    /\ gi = 0
    /\ merged = NoArray
    /\ dense = NoArray
    /\ imgout = NoRaster

GapIdle ==
    /\ gfilenames = <<>>
    /\ gfout = <<>>
    /\ gdisk = EmptyDict
    /\ GapLocalsInit
    /\ gpc = "idle"

Init ==
    /\ radius \in SeqsUpTo(RadiusValues, MaxRadii)
    /\ products \in SeqsUpTo(ProductNames, MaxProducts)
    /\ gapfill \in BOOLEAN
    /\ demtype \in DemTypes
    /\ suffix \in Suffixes
    /\ outdir \in OutDirs
    /\ job = [i \in 1..Len(radius) |-> "queued"]
    /\ started = [i \in 1..Len(radius) |-> 0]
    /\ result = [i \in 1..Len(radius) |-> EmptyDict]
    /\ finished = <<>>
    /\ disk = {}
    /\ fouts = <<>>
    /\ taken = <<>>
    /\ fnames = EmptyDict
    /\ ret = EmptyDict
    /\ gapcalls = <<>>
    /\ pc = "map"
    /\ GapIdle
    /\ ClassIdle

Next ==
    \/ \E i \in 1..N : JobStart(i)
    \/ \E i \in 1..N : RunPipeline(i)
    \/ \E i \in 1..N : VerifyOutputs(i)
    \/ MapNext
    \/ Regroup
    \/ \E p \in ProductNames : GapFillProduct(p)
    \/ \E p \in ProductNames : PassThrough(p)
    \/ Return

vars == <<schedVars, gapVars, classVars>>

Spec == Init /\ [][Next]_vars

\* the least path of a non-empty set in Python's string order
MinPath(paths) == CHOOSE p \in paths : \A q \in paths : q = p \/ StrLess(p, q)

\* the raster files on disk: at most MaxRasters of the paths; the file that sorts
\* first and the others may follow different nodata conventions
GapInit ==
    /\ SchedIdle
    /\ gfilenames = <<>>
    /\ gfout = GapOut
    /\ \E paths \in {ps \in SUBSET GapPaths : Cardinality(ps) <= MaxRasters} :
       \E sh \in [paths -> Shapes], ndFirst \in NoDataValues, ndRest \in NoDataValues :
          gdisk = [p \in paths |->
                      RasterOf(p, sh[p], IF p = MinPath(paths) THEN ndFirst ELSE ndRest)]
    /\ GapLocalsInit
    /\ gpc = "start"
    /\ ClassIdle

\* the caller passes every raster on disk, in any order, possibly more than once
GapArgs == {fs \in SeqsUpTo(DOMAIN gdisk, MaxRasters) : Range(fs) = DOMAIN gdisk}

GapNext ==
    \/ \E fs \in GapArgs : GapOpen(fs)
    \/ GapMerge
    \/ GapNearest
    \/ GapMedian
    \/ GapWrite

GapSpec == GapInit /\ [][GapNext]_vars

ClassifyInit ==
    /\ SchedIdle
    /\ GapIdle
    /\ cargs \in [lasFile : LasFiles, smrf : BOOLEAN, slope : Slopes,
                   approximate : BOOLEAN, verbose : BOOLEAN]
    /\ cpdal = NoCall
    /\ cerr = NoError
    /\ cret = NoReturn
    /\ cpc = "start"

ClassifyNext ==
    \/ ClassifyCall
    \/ ClassifyExcept
    \/ ClassifyReturn

ClassifySpec == ClassifyInit /\ [][ClassifyNext]_vars

\* ===================================================================== claims
Completed(i) == job[i] \in {"ok", "failed"}
AnyFailed == \E i \in 1..N : job[i] = "failed"
Regrouping == pc \in {"post", "returned"}
DotFree(str) == \A k \in DOMAIN str : str[k] # 46

\* C1: after regrouping, the Nth entry of every product's series is the file
\* returned by the job of the Nth radius, whatever the completion order.
C1_SeriesFollowRadiusOrder ==
    Regrouping =>
        \A p \in DOMAIN fnames :
            /\ Len(fnames[p]) = N
            /\ \A i \in 1..N : fnames[p][i] = result[i][p]

\* the second job ended before the first, and the two produce different files
C1_Witness ==
    /\ pc = "post"
    /\ N = 2
    /\ finished = <<2, 1>>
    /\ \E p \in DOMAIN fnames : fnames[p][1] # fnames[p][2]

\* C2: once a per-radius invocation has failed the call never reaches
\* regrouping or return, builds no product map and calls gap_fill for nothing.
C2_FailureFailsWholeCall ==
    AnyFailed =>
        /\ pc \in {"map", "failed"}
        /\ fnames = EmptyDict
        /\ ret = EmptyDict
        /\ gapcalls = <<>>

\* the call has failed although another radius succeeded
C2_Witness ==
    /\ pc = "failed"
    /\ gapfill
    /\ ProductSet # {}
    /\ \E i, j \in 1..N : job[i] = "ok" /\ job[j] = "failed"

\* C3: with gapfill, two distinct products of one call are recorded with
\* different merged output paths.
C3_MergedPathsDistinct ==
    gapfill => \A p, q \in DOMAIN ret : p # q => ret[p] # ret[q]

\* C4 (as stated): two invocations that run at the same time write disjoint
\* sets of file names.
C4_RunningJobsDisjoint ==
    \A i, j \in Running : i # j => JobFiles(i) \cap JobFiles(j) = {}

\* C4 (amended): two invocations that run at the same time and whose radii
\* are rendered differently by '%s' write disjoint sets of file names,
\* provided no product key contains a '.'.
C4_DistinctRadiiDisjoint ==
    \A i, j \in Running :
        (/\ i # j
         /\ FormatS(radius[i]) # FormatS(radius[j])
         /\ \A p \in ProductSet : DotFree(p))
        => JobFiles(i) \cap JobFiles(j) = {}

\* two invocations with different radii run together and each has a file to write
C4_Witness ==
    /\ \E i, j \in Running : FormatS(radius[i]) # FormatS(radius[j])
    /\ ProductSet # {}
    /\ \A p \in ProductSet : DotFree(p)

\* C5: without gapfill a successful call returns, for each product, the path
\* returned by the job of the first radius, and gap_fill was not called.
C5_PassThroughFirstRadius ==
    (pc = "returned" /\ ~gapfill) =>
        /\ \A p \in ProductSet : ret[p] = result[1][p] /\ ret[p] = DemFouts(radius[1])[p]
        /\ gapcalls = <<>>

\* returned without gapfill although the second job ended first
C5_Witness ==
    /\ pc = "returned"
    /\ ~gapfill
    /\ N = 2
    /\ finished = <<2, 1>>
    /\ ProductSet # {}
    /\ FormatS(radius[1]) # FormatS(radius[2])

\* C6: the keys of the returned product map are exactly the requested products.
C6_KeysAreRequestedProducts ==
    pc = "returned" => DOMAIN ret = ProductSet

\* a call with gapfill returned a map for two requested products
C6_Witness ==
    /\ pc = "returned"
    /\ gapfill
    /\ Cardinality(ProductSet) = 2
    /\ Len(products) = 2

\* C7: regrouping and every gap_fill call happen only when every per-radius
\* invocation of the call has ended.
C7_Barrier ==
    (Regrouping \/ fnames # EmptyDict \/ gapcalls # <<>>) => \A i \in 1..N : Completed(i)

\* gap_fill has been called in a call with two radius jobs
C7_Witness ==
    /\ pc = "post"
    /\ gapcalls # <<>>
    /\ N = 2

\* ---------------------------------------------------------- gap_fill claims
GapPast(stage) ==
    \/ stage = "merge" /\ gpc \in {"filter", "write", "done"}
    \/ stage = "median" /\ gpc \in {"write", "done"}

\* Python's string order on the raster paths, tabulated
PathBefore == [p \in GapPaths, q \in GapPaths |-> StrLess(p, q)]

\* the least of a non-empty set of raster paths in that order
LeastPath(paths) == CHOOSE p \in paths : \A q \in paths : q = p \/ PathBefore[p, q]

\* the nodata value of the raster whose path sorts first
FirstNoData == gdisk[LeastPath(DOMAIN gdisk)].nodata

\* the value a cell must have once the rasters of the given paths are merged:
\* that of the raster with the least path whose cell is not nodata
ExpectedMerge(paths, c) ==
    LET valid == {p \in paths : gdisk[p].band[c] # FirstNoData} IN
    IF valid = {} THEN FirstNoData ELSE gdisk[LeastPath(valid)].band[c]

AfterFill == IF gpc = "filter" THEN arr ELSE dense
ValidCells == {c \in Cells : merged[c] # nodata}

\* C9: after the nearest-neighbour fill, if the merged array had a valid cell,
\* no cell is nodata, a valid cell is unchanged and a nodata cell holds the
\* value of a valid cell at minimal Euclidean distance.
C9_NearestFillDense ==
    (GapPast("merge") /\ ValidCells # {}) =>
        \A c \in Cells :
            /\ AfterFill[c] # nodata
            /\ c \in ValidCells => AfterFill[c] = merged[c]
            /\ c \notin ValidCells =>
                  \E d \in ValidCells :
                      /\ AfterFill[c] = merged[d]
                      /\ \A e \in ValidCells : Dist2(c, d) <= Dist2(c, e)

\* a nodata cell was filled although a farther valid cell held another value
C9_Witness ==
    /\ gpc = "filter"
    /\ \E c \in Cells \ ValidCells : \E d, e \in ValidCells :
          /\ Dist2(c, d) < Dist2(c, e)
          /\ merged[d] # merged[e]
          /\ arr[c] = merged[d]

\* C10: for a single raster without nodata whose cells all hold one value,
\* the written array equals the raster at every cell, border included.
C10_FlatRasterUnchanged ==
    (/\ gpc = "done"
     /\ Len(imgs) = 1
     /\ \A c, d \in Cells : gdisk[imgs[1]].band[c] = gdisk[imgs[1]].band[d]
     /\ \A c \in Cells : gdisk[imgs[1]].band[c] # nodata)
    => imgout.band = gdisk[imgs[1]].band

\* C11: a gap_fill call with no raster paths fails at once: no image has been
\* opened, no band read and no output raster created.
C11_EmptyInputFailsFirst ==
    (gpc # "start" /\ gfilenames = <<>>) =>
        /\ gpc = "failed"
        /\ imgs = <<>>
        /\ arr = NoArray
        /\ merged = NoArray
        /\ imgout = NoRaster

\* the call with the empty list has failed
C11_Witness ==
    /\ gpc = "failed"
    /\ gfilenames = <<>>
    /\ DOMAIN gdisk = {}

\* C12: in create_dems with gapfill, every gap_fill call takes nodata and
\* template from the raster of the first requested radius, i.e. the image it
\* opens first is the first entry of the product's series.
C12_TemplateIsFirstRadius ==
    \A k \in DOMAIN gapcalls : gapcalls[k].imgs[1] = gapcalls[k].filenames[1]

\* C13: a create_dem invocation has returned only if every product file
\* exists, and then it returned the full mapping; a failed one returned nothing.
C13_ReturnsOnlyIfAllExist ==
    \A i \in 1..N :
        /\ job[i] = "ok" =>
              /\ DOMAIN result[i] = ProductSet
              /\ \A o \in ProductSet :
                    /\ result[i][o] = ProductFile(BName(radius[i]), o)
                    /\ result[i][o] \in disk
        /\ job[i] # "ok" => result[i] = EmptyDict

\* one invocation returned both product files, another one failed with only
\* part of its product files on disk
C13_Witness ==
    /\ Cardinality(ProductSet) = 2
    /\ \E i, j \in 1..N :
          /\ job[i] = "ok"
          /\ job[j] = "failed"
          /\ JobFiles(j) \cap disk # {}
          /\ ~(JobFiles(j) \subseteq disk)

\* the gap_fill list is in ascending string order
Ascending(l) == \A j, k \in DOMAIN l : j < k => ~PathBefore[l[k], l[j]]

\* C14: whatever order the caller passed the paths in, gap_fill works on their
\* one ascending arrangement: the images are opened in ascending path order,
\* nodata, accumulator and template come from the least path, and the merge
\* priority is that order.
C14_CallerOrderIrrelevant ==
    /\ gpc \in {"merge", "filter", "write", "done"} =>
          /\ Ascending(imgs)
          /\ Range(imgs) = DOMAIN gdisk
          /\ nodata = gdisk[LeastPath(DOMAIN gdisk)].nodata
    /\ (gpc = "merge" /\ gi = 1) => arr = gdisk[LeastPath(DOMAIN gdisk)].band
    /\ GapPast("merge") => \A c \in Cells : merged[c] = ExpectedMerge(DOMAIN gdisk, c)
    /\ gpc = "done" =>
          /\ imgout.template = LeastPath(DOMAIN gdisk)
          /\ imgout.nodata = gdisk[LeastPath(DOMAIN gdisk)].nodata
          /\ imgout.band = MedFilt(dense)

\* two different rasters with different nodata values were merged and written;
\* the state is the same for both orders in which the caller can pass them
C14_Witness ==
    /\ gpc = "done"
    /\ Len(imgs) = 2
    /\ imgs[1] # imgs[2]
    /\ gdisk[imgs[1]].nodata # gdisk[imgs[2]].nodata
    /\ gdisk[imgs[1]].band # gdisk[imgs[2]].band

\* C15: in create_dems with gapfill, the raster of the first requested radius
\* has the highest merge priority, so its valid cells survive the merge: no
\* other raster is consumed by the merge before it.
C15_FirstRadiusHasPriority ==
    \A k \in DOMAIN gapcalls :
        \A j \in DOMAIN gapcalls[k].imgs :
            gapcalls[k].imgs[j] # gapcalls[k].filenames[1] =>
                \E i \in 1..(j - 1) : gapcalls[k].imgs[i] = gapcalls[k].filenames[1]

\* the array gap_fill wrote
Written == imgout.band

\* C16: when the merged stack had a valid pixel, the written array holds no
\* cell equal to the nodata value.
C16_WrittenHasNoNoData ==
    (gpc = "done" /\ ValidCells # {}) => \A c \in Cells : Written[c] # imgout.nodata

\* C17: every radius index is taken up by a worker at most once, and exactly
\* once when its invocation has run; a failed invocation is not run again.
C17_OneInvocationPerRadius ==
    \A i \in 1..N :
        /\ started[i] <= 1
        /\ job[i] # "queued" <=> started[i] = 1

\* the call has failed, every invocation has ended and none was run twice
C17_Witness ==
    /\ pc = "failed"
    /\ N = 2
    /\ \A i \in 1..N : Completed(i) /\ started[i] = 1
    /\ \E i \in 1..N : job[i] = "failed"

\* C18: when the pdal step fails, classify raises the exception that reports
\* the failed classification and returns no path.
C18_RaisesClassificationError ==
    cpc = "raised" =>
        /\ cerr.type = "Exception"
        /\ cerr.msg = "Error creating classified file"
        /\ cret = NoReturn

====
